---- MODULE Spec2Model ----
(***************************************************************************)
(* Conway's Game of Life on a bounded, non-wrapping grid: the Board type   *)
(* of src/src/board.rs (construction, generation transition, Display) and  *)
(* the driving loop of src/src/main.rs.                                    *)
(*                                                                         *)
(* Three specifications share the definitions below:                       *)
(*   Spec        the Board operations, one action per call;                *)
(*   SweepSpec   next_board_state executed one loop step at a time;        *)
(*   DriverSpec  the loop of main.                                         *)
(*                                                                         *)
(* Rows and columns are 0-based as in the source; a Vec is a TLA+ sequence *)
(* so state[row][col] of the source is state[row + 1][col + 1] here.       *)
(***************************************************************************)
EXTENDS Integers, Sequences, FiniteSets, TLC

VARIABLES
    board,       \* the Board the caller holds (main.rs:5), Unset before construction
    ctor,        \* the (width, height) the board was constructed with
    last,        \* the most recent completed call: operation, arguments, return value
    pc,          \* control position
    next_state,  \* local next_state of next_board_state (board.rs:68)
    row,         \* loop counter of board.rs:70
    col,         \* loop counter of board.rs:71
    self0,       \* the board next_board_state was entered with, kept to state its result
    initial,     \* the board main constructed (main.rs:5), kept to state the frames
    stdout       \* what main has written so far, one entry per print!/println!

vars == <<board, ctor, last, pc, next_state, row, col, self0, initial, stdout>>

----------------------------------------------------------------------------
(* Bounds of the model *)

\* Boards have at most MaxCells cells and sides of at most MaxCells.
MaxCells == 9

\* The driver loop is followed for at most MaxFrames printed frames.
MaxFrames == 3

Dims == {d \in (0..MaxCells) \X (0..MaxCells) : d[1] * d[2] <= MaxCells}

----------------------------------------------------------------------------
(* Cell *)

Cell == {"Alive", "Dead"}

\* Characters are modelled as one-character tokens; a text is a sequence of them.
BlockChar == "U+2588"
SpaceChar == " "
LineBreak == "\n"

\* impl Display for Cell: write!(f, "{0}{0}", ch)
CellFmt(cell) ==
    LET ch == IF cell = "Alive" THEN BlockChar ELSE SpaceChar
    IN  <<ch, ch>>

----------------------------------------------------------------------------
(* Board *)

Unset == [unset |-> TRUE]
NoCall == [op |-> "none"]

Width(b)  == b.size[1]
Height(b) == b.size[2]

\* vec![vec![Cell::Dead; width]; width]: a slip that repeats one dimension.
dead_state_square(width, height) ==
    [size  |-> <<width, height>>,
     state |-> [r \in 1..width |-> [c \in 1..width |-> "Dead"]]]

\* vec![vec![Cell::Dead; height]; width]: the dimensions swapped.
dead_state_swapped(width, height) ==
    [size  |-> <<width, height>>,
     state |-> [r \in 1..width |-> [c \in 1..height |-> "Dead"]]]

dead_state(width, height) ==
    [size  |-> <<width, height>>,
     state |-> [r \in 1..height |-> [c \in 1..width |-> "Dead"]]]

\* rng.gen::<f32>() > 0.85, draws and threshold in hundredths.
Threshold == 85

\* The draws the model tries: the largest value that leaves a cell Dead and
\* the smallest that sets it Alive.
DrawValues == {Threshold, Threshold + 1}

\* Number of cells the iteration of board.rs:55-56 visits before row r.
RECURSIVE CellsBefore(_, _)
CellsBefore(state, r) ==
    IF r <= 1 THEN 0 ELSE CellsBefore(state, r - 1) + Len(state[r - 1])

\* random_state with the stream of draws made explicit: the k-th cell visited
\* (row by row, then cell by cell) consumes draws[k].
random_state(width, height, draws) ==
    LET b == dead_state(width, height)
    IN  [b EXCEPT !.state =
            [r \in 1..Len(b.state) |->
                [c \in 1..Len(b.state[r]) |->
                    IF draws[CellsBefore(b.state, r) + c] > Threshold
                    THEN "Alive"
                    ELSE b.state[r][c]]]]

\* state[row as usize][col as usize] is a checked index: outside these it panics.
InBounds(b, r, c) ==
    /\ r >= 0 /\ r < Len(b.state)
    /\ c >= 0 /\ c < Len(b.state[r + 1])

Index(b, r, c) == b.state[r + 1][c + 1]

\* The nine (row, col) pairs in the order the loops of board.rs:84 and :89
\* produce them.
LoopPositions(x, y) ==
    [i \in 1..9 |-> <<y - 1 + ((i - 1) \div 3), x - 1 + ((i - 1) % 3)>>]

\* Variants of the filter below, each a plausible slip.
Examined_with_self(self, x, y) ==
    LET width == Width(self)
        height == Height(self)
        Keep(p) == /\ ~(p[1] < 0 \/ p[1] >= height)
                   /\ ~(p[2] < 0 \/ p[2] >= width)
    IN  SelectSeq(LoopPositions(x, y), Keep)

Examined_wrapping(self, x, y) ==
    LET width == Width(self)
        height == Height(self)
        Wrap(p) == <<(p[1] + height) % height, (p[2] + width) % width>>
        Keep(p) == ~(x = p[2] /\ y = p[1])
    IN  SelectSeq([i \in 1..9 |-> Wrap(LoopPositions(x, y)[i])], Keep)

Examined_off_by_one(self, x, y) ==
    LET width == Width(self)
        height == Height(self)
        Keep(p) == /\ ~(p[1] < 0 \/ p[1] >= height)
                   /\ ~((p[2] < 0 \/ p[2] > width) \/ (x = p[2] /\ y = p[1]))
    IN  SelectSeq(LoopPositions(x, y), Keep)

\* The positions that reach the liveness test of board.rs:94: those the two
\* `continue` statements (board.rs:85-87, 90-92) do not skip.
Examined(self, x, y) ==
    LET width == Width(self)
        height == Height(self)
        Keep(p) == /\ ~(p[1] < 0 \/ p[1] >= height)
                   /\ ~((p[2] < 0 \/ p[2] >= width) \/ (x = p[2] /\ y = p[1]))
    IN  SelectSeq(LoopPositions(x, y), Keep)

\* Whether next_cell_state(coords) indexes outside self.state (board.rs:94, :100).
CellPanics(self, coords) ==
    LET x == coords[1]
        y == coords[2]
        Outside(p) == ~InBounds(self, p[1], p[2])
    IN  \/ Len(SelectSeq(Examined(self, x, y), Outside)) > 0
        \/ ~InBounds(self, y, x)

\* live_neighbours after the loops of board.rs:84-98.
LiveNeighbours(self, x, y) ==
    LET IsAlive(p) == Index(self, p[1], p[2]) = "Alive"
    IN  Len(SelectSeq(Examined(self, x, y), IsAlive))

\* The match of board.rs:100-109 with the arms of the Dead case exchanged.
Rule_dead_arms_swapped(cell, live_neighbours) ==
    IF cell = "Alive"
    THEN IF live_neighbours \in {2, 3} THEN "Alive" ELSE "Dead"
    ELSE IF live_neighbours = 3 THEN "Dead" ELSE "Alive"

\* The match of board.rs:100-109.
Rule(cell, live_neighbours) ==
    IF cell = "Alive"
    THEN IF live_neighbours \in {2, 3} THEN "Alive" ELSE "Dead"
    ELSE IF live_neighbours = 3 THEN "Alive" ELSE "Dead"

next_cell_state(self, coords) ==
    LET x == coords[1]
        y == coords[2]
    IN  Rule(Index(self, y, x), LiveNeighbours(self, x, y))

\* The body of the inner loop written as an in-place sweep: the new state goes
\* into the board being read.
SweepBody_in_place(self, out, r, c) ==
    [self       |-> [self EXCEPT !.state[r + 1][c + 1] = next_cell_state(self, <<c, r>>)],
     next_state |-> [out EXCEPT !.state[r + 1][c + 1] = next_cell_state(self, <<c, r>>)]]

\* The body of the inner loop (board.rs:72): self is read, next_state is written.
SweepBody(self, out, r, c) ==
    [self       |-> self,
     next_state |-> [out EXCEPT !.state[r + 1][c + 1] = next_cell_state(self, <<c, r>>)]]

\* Whether the body at (r, c) panics: an index outside self.state inside
\* next_cell_state, or outside next_state.state in the assignment.
BodyPanics(self, out, r, c) ==
    CellPanics(self, <<c, r>>) \/ ~InBounds(out, r, c)

\* The loops of board.rs:70-74 from position (r, c) on; the result carries
\* whether a panic ended them.
RECURSIVE Sweep(_, _, _, _)
Sweep(self, out, r, c) ==
    IF r >= Height(self) THEN [panicked |-> FALSE, next_state |-> out]
    ELSE IF c >= Width(self) THEN Sweep(self, out, r + 1, 0)
    ELSE IF BodyPanics(self, out, r, c) THEN [panicked |-> TRUE, next_state |-> out]
    ELSE Sweep(self, SweepBody(self, out, r, c).next_state, r, c + 1)

NextPanics(self) ==
    Sweep(self, dead_state(Width(self), Height(self)), 0, 0).panicked

next_board_state(self) ==
    Sweep(self, dead_state(Width(self), Height(self)), 0, 0).next_state

\* join that also ends the text with the separator.
RECURSIVE Join_trailing(_, _)
Join_trailing(strs, sep) ==
    IF Len(strs) = 0 THEN << >>
    ELSE Head(strs) \o sep \o Join_trailing(Tail(strs), sep)

\* [String]::join(sep): the elements with sep between neighbours.
RECURSIVE Join(_, _)
Join(strs, sep) ==
    IF Len(strs) = 0 THEN << >>
    ELSE IF Len(strs) = 1 THEN Head(strs)
    ELSE Head(strs) \o sep \o Join(Tail(strs), sep)

\* impl Display for Board.
BoardFmt(self) ==
    LET RowText(r) == Join([c \in 1..Len(r) |-> CellFmt(r[c])], << >>)
    IN  Join([i \in 1..Len(self.state) |-> RowText(self.state[i])], <<LineBreak>>)

----------------------------------------------------------------------------
(* Spec: the operations of Board, one action per call *)

Idle ==
    /\ next_state = Unset /\ row = 0 /\ col = 0 /\ self0 = Unset
    /\ initial = Unset /\ stdout = << >>

Init ==
    /\ board = Unset
    /\ ctor = <<0, 0>>
    /\ last = NoCall
    /\ pc = "start"
    /\ Idle

DeadState(width, height) ==
    /\ pc = "start"
    /\ board' = dead_state(width, height)
    /\ ctor' = <<width, height>>
    /\ last' = [op |-> "dead_state", width |-> width, height |-> height,
                ret |-> board']
    /\ pc' = "ready"
    /\ UNCHANGED <<next_state, row, col, self0, initial, stdout>>

RandomState(width, height, draws) ==
    /\ pc = "start"
    /\ board' = random_state(width, height, draws)
    /\ ctor' = <<width, height>>
    /\ last' = [op |-> "random_state", width |-> width, height |-> height,
                draws |-> draws, ret |-> board']
    /\ pc' = "ready"
    /\ UNCHANGED <<next_state, row, col, self0, initial, stdout>>

NextBoardState ==
    /\ pc = "ready"
    /\ IF NextPanics(board)
       THEN pc' = "panicked" /\ UNCHANGED <<board, last>>
       ELSE /\ board' = next_board_state(board)
            /\ last' = [op |-> "next_board_state", self |-> board, ret |-> board']
            /\ pc' = pc
    /\ UNCHANGED <<ctor, next_state, row, col, self0, initial, stdout>>

Fmt ==
    /\ pc = "ready"
    /\ last' = [op |-> "fmt", self |-> board, ret |-> BoardFmt(board)]
    /\ UNCHANGED <<board, ctor, pc, next_state, row, col, self0, initial, stdout>>

\* The calls a caller can make: any dimensions within the bounds, any draws.
CallDeadState ==
    /\ pc = "start"
    /\ \E d \in Dims : DeadState(d[1], d[2])

CallRandomState ==
    /\ pc = "start"
    /\ \E d \in Dims : \E draws \in [1..(d[1] * d[2]) -> DrawValues] :
            RandomState(d[1], d[2], draws)

Next ==
    \/ CallDeadState
    \/ CallRandomState
    \/ NextBoardState
    \/ Fmt

Spec == Init /\ [][Next]_vars

----------------------------------------------------------------------------
(* SweepSpec: next_board_state one loop step at a time *)

\* board.rs:67-68, and entry to the loop of board.rs:70.
Call ==
    /\ pc = "ready"
    /\ self0' = board
    /\ next_state' = dead_state(Width(board), Height(board))
    /\ row' = 0
    /\ pc' = "for_row"
    /\ UNCHANGED <<board, ctor, last, col, initial, stdout>>

\* The head of `for row in 0..height` (board.rs:70); past the last row the
\* function returns next_state (board.rs:76).
ForRow ==
    /\ pc = "for_row"
    /\ IF row < Height(board)
       THEN /\ col' = 0
            /\ pc' = "for_col"
            /\ UNCHANGED last
       ELSE /\ last' = [op |-> "next_board_state", self |-> board, ret |-> next_state]
            /\ pc' = "returned"
            /\ UNCHANGED col
    /\ UNCHANGED <<board, ctor, next_state, row, self0, initial, stdout>>

\* The head of `for col in 0..width` (board.rs:71) and its body (board.rs:72).
ForCol ==
    /\ pc = "for_col"
    /\ IF col < Width(board)
       THEN IF BodyPanics(board, next_state, row, col)
            THEN /\ pc' = "panicked"
                 /\ UNCHANGED <<board, next_state, row, col>>
            ELSE /\ board' = SweepBody(board, next_state, row, col).self
                 /\ next_state' = SweepBody(board, next_state, row, col).next_state
                 /\ col' = col + 1
                 /\ UNCHANGED <<pc, row>>
       ELSE /\ row' = row + 1
            /\ pc' = "for_row"
            /\ UNCHANGED <<board, next_state, col>>
    /\ UNCHANGED <<ctor, last, self0, initial, stdout>>

SweepNext ==
    \/ CallRandomState
    \/ Call
    \/ ForRow
    \/ ForCol

SweepSpec == Init /\ [][SweepNext]_vars

----------------------------------------------------------------------------
(* DriverSpec: the loop of main *)

\* "\x1B[2J\x1B[1;1H"
ClearScreen == <<"ESC[2J", "ESC[1;1H">>

\* main constructs a square board; the model takes the sides that fit MaxCells.
Sides == {n \in 0..MaxCells : n * n <= MaxCells}

\* A driver that advances two generations per iteration.
MainAdvance_twice(b) ==
    CHOOSE twice \in {next_board_state(once) : once \in {next_board_state(b)}} : TRUE

\* board.next_board_state() of main.rs:9.
MainAdvance(b) == next_board_state(b)

\* main.rs:5, with side n in place of 40
MainRandom(n, draws) ==
    /\ board' = random_state(n, n, draws)
    /\ ctor' = <<n, n>>
    /\ initial' = board'
    /\ pc' = "clear"
    /\ UNCHANGED <<last, next_state, row, col, self0, stdout>>

\* main.rs:7
MainClear ==
    /\ pc = "clear"
    /\ Len(stdout) < 2 * MaxFrames
    /\ stdout' = Append(stdout, ClearScreen)
    /\ pc' = "println"
    /\ UNCHANGED <<board, ctor, last, next_state, row, col, self0, initial>>

\* main.rs:8
MainPrintln ==
    /\ pc = "println"
    /\ stdout' = Append(stdout, BoardFmt(board) \o <<LineBreak>>)
    /\ pc' = "advance"
    /\ UNCHANGED <<board, ctor, last, next_state, row, col, self0, initial>>

\* main.rs:9
MainStep ==
    /\ pc = "advance"
    /\ IF NextPanics(board)
       THEN pc' = "panicked" /\ UNCHANGED board
       ELSE board' = MainAdvance(board) /\ pc' = "sleep"
    /\ UNCHANGED <<ctor, last, next_state, row, col, self0, initial, stdout>>

\* main.rs:10, and back to the head of the loop
MainSleep ==
    /\ pc = "sleep"
    /\ pc' = "clear"
    /\ UNCHANGED <<board, ctor, last, next_state, row, col, self0, initial, stdout>>

MainStart ==
    /\ pc = "start"
    /\ \E n \in Sides : \E draws \in [1..(n * n) -> DrawValues] : MainRandom(n, draws)

DriverNext ==
    \/ MainStart
    \/ MainClear
    \/ MainPrintln
    \/ MainStep
    \/ MainSleep

DriverSpec == Init /\ [][DriverNext]_vars

----------------------------------------------------------------------------
(* Vocabulary of the properties: the grid and the rule stated over sets of  *)
(* positions, independently of the loops above.                             *)

Positions(b) == (0..(Height(b) - 1)) \X (0..(Width(b) - 1))

At(b, p) == b.state[p[1] + 1][p[2] + 1]

Dist(a, b) == IF a >= b THEN a - b ELSE b - a

\* The Alive cells of b adjacent to p (diagonals included), p itself excluded,
\* positions outside the grid not existing.
LiveNeighbourSet(b, p) ==
    {q \in Positions(b) :
        /\ Dist(q[1], p[1]) <= 1
        /\ Dist(q[2], p[2]) <= 1
        /\ q # p
        /\ At(b, q) = "Alive"}

\* The standard rule: survive on 2 or 3, birth on exactly 3.
LifeCell(b, p) ==
    LET n == Cardinality(LiveNeighbourSet(b, p))
    IN  IF \/ At(b, p) = "Alive" /\ n \in {2, 3}
           \/ At(b, p) = "Dead" /\ n = 3
        THEN "Alive"
        ELSE "Dead"

\* b has the shape of a width x height grid of cells.
HasShape(b, width, height) ==
    /\ b.size = <<width, height>>
    /\ Len(b.state) = height
    /\ \A r \in 1..Len(b.state) :
        /\ Len(b.state[r]) = width
        /\ \A c \in 1..Len(b.state[r]) : b.state[r][c] \in Cell

SomeCell(b, cell) == \E p \in Positions(b) : At(b, p) = cell

----------------------------------------------------------------------------
(* C1: every cell of next_board_state(b) is Alive exactly when the cell of  *)
(* b is Alive with 2 or 3 live neighbours or Dead with exactly 3, and Dead  *)
(* otherwise; neighbours are the adjacent in-grid cells, no wraparound.     *)
C1_TransitionRule ==
    last.op = "next_board_state" =>
        \A p \in Positions(last.self) : At(last.ret, p) = LifeCell(last.self, p)

\* A non-square board in which a cell is born, one survives and one dies.
C1_Witness ==
    /\ last.op = "next_board_state"
    /\ Width(last.self) # Height(last.self)
    /\ \E p \in Positions(last.self) :
            At(last.self, p) = "Dead" /\ At(last.ret, p) = "Alive"
    /\ \E p \in Positions(last.self) :
            At(last.self, p) = "Alive" /\ At(last.ret, p) = "Alive"
    /\ \E p \in Positions(last.self) :
            /\ At(last.self, p) = "Alive" /\ At(last.ret, p) = "Dead"
            /\ Cardinality(LiveNeighbourSet(last.self, p)) >= 4

----------------------------------------------------------------------------
(* C2: during the sweep the board read stays the board the function was    *)
(* entered with, every cell already written holds the rule applied to that *)
(* board, every cell not yet written is still Dead; so the returned board  *)
(* is the simultaneous application of the rule.                            *)
Written(p) ==
    \/ p[1] < row
    \/ pc = "for_col" /\ p[1] = row /\ p[2] < col

C2_PureMap ==
    pc \in {"for_row", "for_col", "returned"} =>
        /\ board = self0
        /\ HasShape(next_state, Width(self0), Height(self0))
        /\ \A p \in Positions(self0) :
              At(next_state, p) = IF Written(p) THEN LifeCell(self0, p) ELSE "Dead"
        /\ pc = "returned" => \A p \in Positions(self0) : Written(p)

\* A sweep that returned a board different from its input, on a grid where
\* cells written earlier are neighbours of cells written later.
C2_Witness ==
    /\ pc = "returned"
    /\ Width(self0) >= 2 /\ Height(self0) >= 2
    /\ next_state.state # self0.state
    /\ SomeCell(next_state, "Alive")

----------------------------------------------------------------------------
(* C3: a board made by dead_state(W, H) or random_state(W, H) and advanced *)
(* any number of times has size (W, H), H rows and W cells in every row,   *)
(* each Alive or Dead.                                                     *)
C3_Rectangular ==
    pc = "ready" => HasShape(board, ctor[1], ctor[2])

C3_Witness ==
    /\ pc = "ready"
    /\ last.op = "next_board_state"
    /\ ctor = <<2, 4>>
    /\ board # last.self
    /\ SomeCell(board, "Alive")

----------------------------------------------------------------------------
(* C4: next_board_state(dead_state(w, h)) = dead_state(w, h) for all w, h: *)
(* an all-dead board stays all dead.                                       *)
C4_DeadFixedPoint ==
    last.op = "next_board_state" =>
        \A d \in Dims :
            last.self = dead_state(d[1], d[2]) =>
                /\ last.ret = dead_state(d[1], d[2])
                /\ board = dead_state(d[1], d[2])

C4_Witness ==
    /\ last.op = "next_board_state"
    /\ last.self = dead_state(2, 3)
    /\ ~SomeCell(board, "Alive")

----------------------------------------------------------------------------
(* C5: random_state(3, 3) returns a board with at least one Alive cell,    *)
(* whatever the draws.                                                     *)
C5_Random3x3HasAlive ==
    (last.op = "random_state" /\ last.width = 3 /\ last.height = 3) =>
        SomeCell(last.ret, "Alive")

----------------------------------------------------------------------------
(* C6: dead_state(w, h) succeeds for every w, h >= 0 and returns h rows of *)
(* w cells, all Dead.                                                      *)
C6_DeadState ==
    /\ pc = "start" => \A d \in Dims : ENABLED DeadState(d[1], d[2])
    /\ last.op = "dead_state" =>
        /\ HasShape(last.ret, last.width, last.height)
        /\ ~SomeCell(last.ret, "Alive")
        /\ \A r \in 1..last.height : \A c \in 1..last.width :
              last.ret.state[r][c] = "Dead"
        /\ board = last.ret

C6_Witness ==
    /\ last.op = "dead_state"
    /\ last.width = 2 /\ last.height = 4
    /\ Len(board.state) = 4

----------------------------------------------------------------------------
(* C7: next_board_state never indexes outside the input or the output grid *)
(* and always completes; on a board with no cells it returns a board with  *)
(* no cells, of the same dimensions.                                       *)
AccessesInGrid(b, r, c) ==
    LET ex == Examined(b, c, r)
    IN  \A i \in 1..Len(ex) :
            /\ 0 <= ex[i][1] /\ ex[i][1] < Height(b)
            /\ 0 <= ex[i][2] /\ ex[i][2] < Width(b)

C7_Total ==
    /\ pc # "panicked"
    /\ pc \in {"ready", "for_row", "for_col"} => ENABLED SweepNext
    /\ (pc = "for_col" /\ col < Width(board)) =>
            /\ 0 <= row /\ row < Height(board)
            /\ 0 <= col
            /\ AccessesInGrid(board, row, col)
            /\ ~BodyPanics(board, next_state, row, col)
    /\ (pc = "returned" /\ (Width(self0) = 0 \/ Height(self0) = 0)) =>
            /\ HasShape(next_state, Width(self0), Height(self0))
            /\ Positions(next_state) = {}

\* A completed sweep over a non-square board whose every cell is Alive, so
\* that every in-grid neighbour of every border cell was indexed.
C7_Witness ==
    /\ pc = "returned"
    /\ self0.size = <<3, 2>>
    /\ ~SomeCell(self0, "Dead")

----------------------------------------------------------------------------
(* C8: the text of a W x H board is H lines of 2W characters joined by     *)
(* single line breaks, none trailing; characters 2c and 2c+1 of line r are *)
(* the glyph of cell (r, c): U+2588 for Alive, space for Dead.  The board  *)
(* is unchanged.                                                           *)
Glyph(cell) == IF cell = "Alive" THEN BlockChar ELSE SpaceChar

C8_Render ==
    last.op = "fmt" =>
        LET b == last.self
            t == last.ret
            W == Width(b)
            H == Height(b)
        IN  /\ board = b
            /\ Len(t) = IF H = 0 THEN 0 ELSE H * 2 * W + (H - 1)
            /\ \A p \in Positions(b) :
                  /\ t[p[1] * (2 * W + 1) + 2 * p[2] + 1] = Glyph(At(b, p))
                  /\ t[p[1] * (2 * W + 1) + 2 * p[2] + 2] = Glyph(At(b, p))
            /\ \A r \in 0..(H - 2) : t[r * (2 * W + 1) + 2 * W + 1] = LineBreak

C8_Witness ==
    /\ last.op = "fmt"
    /\ last.self.size = <<2, 3>>
    /\ SomeCell(last.self, "Alive")
    /\ SomeCell(last.self, "Dead")
    /\ Len(last.ret) = 14

----------------------------------------------------------------------------
(* C9 as stated: on every board, next_cell_state examines 3 positions for  *)
(* a corner cell, 5 for a non-corner edge cell, 8 for an interior cell.    *)
OnRowBorder(b, p) == p[1] = 0 \/ p[1] = Height(b) - 1
OnColBorder(b, p) == p[2] = 0 \/ p[2] = Width(b) - 1

CandidatesByKind(b, p) ==
    IF OnRowBorder(b, p) /\ OnColBorder(b, p) THEN 3
    ELSE IF OnRowBorder(b, p) \/ OnColBorder(b, p) THEN 5
    ELSE 8

C9_AsStated ==
    last.op = "next_board_state" =>
        \A p \in Positions(last.self) :
            Len(Examined(last.self, p[2], p[1])) = CandidatesByKind(last.self, p)

(* C9 amended: the counts 3, 5, 8 hold on boards at least 2 wide and 2     *)
(* high; on every board the count is (rows of the grid within 1 of the     *)
(* cell's row) x (columns within 1 of its column) - 1.                     *)
RowsNear(b, p) == {r \in 0..(Height(b) - 1) : Dist(r, p[1]) <= 1}
ColsNear(b, p) == {c \in 0..(Width(b) - 1) : Dist(c, p[2]) <= 1}

C9_CandidateCounts ==
    last.op = "next_board_state" =>
        \A p \in Positions(last.self) :
            LET n == Len(Examined(last.self, p[2], p[1]))
            IN  /\ n = Cardinality(RowsNear(last.self, p))
                        * Cardinality(ColsNear(last.self, p)) - 1
                /\ (Width(last.self) >= 2 /\ Height(last.self) >= 2) =>
                        n = CandidatesByKind(last.self, p)

\* A 3 x 3 board: four corners, four edge cells, one interior cell.
C9_Witness ==
    /\ last.op = "next_board_state"
    /\ last.self.size = <<3, 3>>
    /\ SomeCell(last.self, "Alive")

----------------------------------------------------------------------------
(* C10: the n-th frame main prints (n = 0, 1, ...) is the text of          *)
(* next_board_state applied n times to the initial board; each generation  *)
(* is printed once, before it is replaced; the loop has no exit.           *)
RECURSIVE Generation(_, _)
Generation(n, b) ==
    IF n = 0 THEN b
    ELSE CHOOSE g \in {Generation(n - 1, succ) : succ \in {next_board_state(b)}} : TRUE

C10_Frames ==
    pc # "start" =>
        LET n == Len(stdout) \div 2
        IN  /\ pc \in {"clear", "println", "advance", "sleep"}
            /\ \A k \in 1..Len(stdout) :
                  IF k % 2 = 1
                  THEN stdout[k] = ClearScreen
                  ELSE \A g \in {Generation(k \div 2 - 1, initial)} :
                          stdout[k] = BoardFmt(g) \o <<LineBreak>>
            /\ (Len(stdout) % 2 = 1) <=> (pc = "println")
            /\ pc \in {"clear", "println", "sleep"} => board = Generation(n, initial)
            /\ pc = "advance" => n >= 1 /\ board = Generation(n - 1, initial)
            /\ Len(stdout) < 2 * MaxFrames => ENABLED DriverNext

\* Three frames printed, of three different generations of a 3 x 3 board.
C10_Witness ==
    /\ pc = "advance"
    /\ Len(stdout) = 6
    /\ Width(initial) = 3
    /\ stdout[2] # stdout[4]
    /\ stdout[4] # stdout[6]
    /\ stdout[2] # stdout[6]

====
